---- MODULE Spec2Model ----
(***************************************************************************)
(* Pool heater monitor (src/pool-monitor.py).                              *)
(*                                                                         *)
(* One invocation of main() fetches the pool status, loads the previously  *)
(* persisted status from previous_state.json, sends an e-mail when the     *)
(* heater went from mode 0 to mode 1, and rewrites the state file.  The    *)
(* model follows main() statement by statement; every file access and      *)
(* every network call is one step, so that invocations can interleave.     *)
(***************************************************************************)
EXTENDS Integers, Sequences, FiniteSets, TLC

(***************************************************************************)
(* Bounds                                                                  *)
(***************************************************************************)
\* the opaque rest of a status document is one number in 0..MaxTemp
MaxTemp == 1
\* the representative of the unrecognized heater modes (neither 0 nor 1)
OtherMode == 2


\* the invocations that may be alive at the same time
Procs == {"A", "B"}

Modes == {0, 1, OtherMode}
Temps == 0 .. MaxTemp

(***************************************************************************)
(* JSON documents                                                          *)
(***************************************************************************)
\* Python's None / a present value
None == << >>
Some(v) == << v >>

\* a document that conforms to StatusRecord: heaters[0].mode exists
StatusRecords == { [heaters |-> << [mode |-> m] >>, temp |-> t] : m \in Modes, t \in Temps }
\* valid JSON whose heaters list is empty: ['heaters'][0] raises IndexError
NoHeaterDocs == { [heaters |-> << >>, temp |-> 0] }
JsonDocs == StatusRecords \cup NoHeaterDocs

\* current_state['heaters'][0]['mode']: defined iff the list is not empty
HasMode(doc) == Len(doc.heaters) > 0
ModeOf(doc) == doc.heaters[1].mode

\* the decimal text of an integer, and the integer of a decimal text
IntToStr(n) ==
  CASE n = 0 -> "0" [] n = 1 -> "1" [] n = 2 -> "2" [] n = 3 -> "3"
    [] n = 4 -> "4" [] OTHER -> "?"
IsNumber(s) == s \in {"0", "1", "2", "3", "4"}
StrToInt(s) ==
  CASE s = "0" -> 0 [] s = "1" -> 1 [] s = "2" -> 2 [] s = "3" -> 3
    [] s = "4" -> 4 [] OTHER -> -1

\* json.dump(obj, f, indent=2): the text of a document, as its tokens
DumpHeater(h) == << "{", "mode", IntToStr(h.mode), "}" >>
json_dump(doc) ==
  << "{", "heaters", "[" >>
    \o (IF Len(doc.heaters) = 0 THEN << >> ELSE DumpHeater(doc.heaters[1]))
    \o << "]", "temp", IntToStr(doc.temp), "}" >>

\* json.load(f): the document of a text; Parses(text) is FALSE where
\* json.load raises JSONDecodeError
ParsesTail(text, i) ==
  /\ Len(text) = i + 3
  /\ text[i] = "]" /\ text[i + 1] = "temp" /\ IsNumber(text[i + 2]) /\ text[i + 3] = "}"
ParsesHead(text) ==
  /\ Len(text) >= 7
  /\ text[1] = "{" /\ text[2] = "heaters" /\ text[3] = "["
ParsesHeater(text) ==
  /\ Len(text) >= 8
  /\ text[4] = "{" /\ text[5] = "mode" /\ IsNumber(text[6]) /\ text[7] = "}"
Parses(text) ==
  /\ ParsesHead(text)
  /\ \/ ParsesTail(text, 4)
     \/ ParsesHeater(text) /\ ParsesTail(text, 8)
json_load(text) ==
  IF text[4] = "]"
    THEN [heaters |-> << >>, temp |-> StrToInt(text[6])]
    ELSE [heaters |-> << [mode |-> StrToInt(text[6])] >>, temp |-> StrToInt(text[10])]

\* a state file cut short: not valid JSON
Malformed == << "{", "heaters" >>

\* previous_state.json: missing, or its text (the empty text has length 0)
NoFile == [exists |-> FALSE, data |-> << >>]
FileOf(text) == [exists |-> TRUE, data |-> text]
InitialFiles ==
  {NoFile, FileOf(<< >>), FileOf(Malformed)} \cup { FileOf(json_dump(d)) : d \in JsonDocs }

\* STATE_FILE.exists() and STATE_FILE.stat().st_size > 0
HasPreviousState(f) == f.exists /\ Len(f.data) > 0

(***************************************************************************)
(* The decision of main()                                                  *)
(***************************************************************************)
\* previous_mode of a first run
FirstRunMode == -1

\* slip: anything but ON counts as OFF, a first run included
evaluate_transition_notOn(previous_mode, current_mode) ==
  IF previous_mode # 1 /\ current_mode = 1 THEN "TURNED_ON"
  ELSE IF previous_mode = 1 /\ current_mode = 0 THEN "TURNED_OFF"
  ELSE "NO_CHANGE"

\* slip: the alert is raised on the level, not on the edge
evaluate_transition_level(previous_mode, current_mode) ==
  IF current_mode = 1 THEN "TURNED_ON"
  ELSE IF previous_mode = 1 /\ current_mode = 0 THEN "TURNED_OFF"
  ELSE "NO_CHANGE"

evaluate_transition(previous_mode, current_mode) ==
  IF previous_mode = 0 /\ current_mode = 1 THEN "TURNED_ON"
  ELSE IF previous_mode = 1 /\ current_mode = 0 THEN "TURNED_OFF"
  ELSE "NO_CHANGE"

(***************************************************************************)
(* State                                                                   *)
(***************************************************************************)
VARIABLES
  file,            \* previous_state.json
  remote,          \* the document the status API answers with
  pc,              \* where each invocation of main() stands
  current_state,   \* main(): None while unbound
  current_mode,
  previous_state,
  previous_mode,
  decision,        \* the branch of lines 85-91 taken, "NONE" before
  calls,           \* history: the I/O calls of the invocation, in order
  emails,          \* history: e-mails the mail API accepted in the invocation
  startFile,       \* history: the state file when the last invocation started
  lastRun,         \* history: the run that finished last
  lastCompleted,   \* history: record fetched by the last run that completed
  alerts,          \* history: e-mails accepted since the remote mode became 1
  sendFailed,      \* history: a send has failed since the remote mode became 1
  overlap          \* history: two invocations were alive at once since then

locals == << current_state, current_mode, previous_state, previous_mode, decision >>
ghosts == << calls, emails, startFile, lastRun, lastCompleted, alerts, sendFailed,
            overlap >>
vars == << file, remote, pc, locals, ghosts >>

Finished == {"done", "aborted"}
Active(p) == pc[p] \notin ({"idle"} \cup Finished)
NoRun == [observed |-> None, outcome |-> "none"]

Init ==
  /\ file \in InitialFiles
  /\ remote \in JsonDocs
  /\ pc = [p \in Procs |-> "idle"]
  /\ current_state = [p \in Procs |-> None]
  /\ current_mode = [p \in Procs |-> FirstRunMode]
  /\ previous_state = [p \in Procs |-> None]
  /\ previous_mode = [p \in Procs |-> FirstRunMode]
  /\ decision = [p \in Procs |-> "NONE"]
  /\ calls = [p \in Procs |-> << >>]
  /\ emails = [p \in Procs |-> 0]
  /\ startFile = file
  /\ lastRun = NoRun
  /\ lastCompleted = None
  /\ alerts = 0
  /\ sendFailed = FALSE
  /\ overlap = FALSE

(***************************************************************************)
(* The environment                                                         *)
(***************************************************************************)
RemoteIsOn(doc) == HasMode(doc) /\ ModeOf(doc) = 1

\* the pool equipment changes; the API answers with another document
RemoteChange ==
  /\ \E doc \in JsonDocs \ {remote} :
       /\ remote' = doc
       /\ IF RemoteIsOn(doc) /\ ~RemoteIsOn(remote)
            THEN /\ alerts' = 0
                 /\ sendFailed' = FALSE
                 /\ overlap' = (\E p, q \in Procs : p # q /\ Active(p) /\ Active(q))
            ELSE UNCHANGED << alerts, sendFailed, overlap >>
  /\ UNCHANGED << file, pc, locals, calls, emails, startFile, lastRun, lastCompleted >>

(***************************************************************************)
(* main()                                                                  *)
(***************************************************************************)
\* the history of a run that ends at this step
Finish(p, observed, outcome) ==
  /\ lastRun' = [observed |-> observed, outcome |-> outcome]
  /\ lastCompleted' = IF outcome = "done" THEN observed ELSE lastCompleted

Call(p, name) == calls' = [calls EXCEPT ![p] = Append(@, name)]

\* the process is started: every name of main() is unbound
Start(p) ==
  /\ pc[p] \in {"idle"} \cup Finished
  /\ pc' = [pc EXCEPT ![p] = "fetch"]
  /\ current_state' = [current_state EXCEPT ![p] = None]
  /\ current_mode' = [current_mode EXCEPT ![p] = FirstRunMode]
  /\ previous_state' = [previous_state EXCEPT ![p] = None]
  /\ previous_mode' = [previous_mode EXCEPT ![p] = FirstRunMode]
  /\ decision' = [decision EXCEPT ![p] = "NONE"]
  /\ calls' = [calls EXCEPT ![p] = << >>]
  /\ emails' = [emails EXCEPT ![p] = 0]
  /\ startFile' = file
  /\ overlap' = (overlap \/ \E q \in Procs \ {p} : Active(q))
  /\ UNCHANGED << file, remote, lastRun, lastCompleted, alerts, sendFailed >>

\* lines 68-69: the fetch answers and the document has heaters[0].mode
FetchOk(p) ==
  /\ pc[p] = "fetch"
  /\ HasMode(remote)
  /\ current_state' = [current_state EXCEPT ![p] = Some(remote)]
  /\ current_mode' = [current_mode EXCEPT ![p] = ModeOf(remote)]
  /\ pc' = [pc EXCEPT ![p] = "load"]
  /\ Call(p, "fetch")
  /\ UNCHANGED << file, remote, previous_state, previous_mode, decision,
                  emails, startFile, lastRun, lastCompleted, alerts, sendFailed, overlap >>

\* slip: a failed fetch is tried again
FetchHttpErrorRetry(p) ==
  /\ pc[p] = "fetch"
  /\ Len(calls[p]) < 3
  /\ Call(p, "fetch")
  /\ UNCHANGED << file, remote, pc, locals, emails, startFile, lastRun, lastCompleted,
                  alerts, sendFailed, overlap >>

\* lines 29-30: transport failure or a non-success answer; the run aborts
FetchHttpError(p) ==
  /\ pc[p] = "fetch"
  /\ pc' = [pc EXCEPT ![p] = "aborted"]
  /\ Call(p, "fetch")
  /\ Finish(p, None, "fetch_failed")
  /\ UNCHANGED << file, remote, locals, emails, startFile, alerts, sendFailed, overlap >>

\* line 69: the answer has no heaters[0]; the run aborts
FetchNoHeaters(p) ==
  /\ pc[p] = "fetch"
  /\ ~HasMode(remote)
  /\ current_state' = [current_state EXCEPT ![p] = Some(remote)]
  /\ pc' = [pc EXCEPT ![p] = "aborted"]
  /\ Call(p, "fetch")
  /\ Finish(p, None, "fetch_failed")
  /\ UNCHANGED << file, remote, current_mode, previous_state, previous_mode, decision,
                  emails, startFile, alerts, sendFailed, overlap >>

\* line 74 true: there is a state file with content
LoadExists(p) ==
  /\ pc[p] = "load"
  /\ HasPreviousState(file)
  /\ pc' = [pc EXCEPT ![p] = "read"]
  /\ UNCHANGED << file, remote, locals, ghosts >>

\* slip: a first run takes the heater to have been OFF
LoadNoneAsOff(p) ==
  /\ pc[p] = "load"
  /\ ~HasPreviousState(file)
  /\ previous_mode' = [previous_mode EXCEPT ![p] = 0]
  /\ previous_state' = [previous_state EXCEPT ![p] = None]
  /\ pc' = [pc EXCEPT ![p] = "check"]
  /\ UNCHANGED << file, remote, current_state, current_mode, decision, ghosts >>

\* line 74 false, lines 80-82: first run
LoadNone(p) ==
  /\ pc[p] = "load"
  /\ ~HasPreviousState(file)
  /\ previous_mode' = [previous_mode EXCEPT ![p] = FirstRunMode]
  /\ previous_state' = [previous_state EXCEPT ![p] = None]
  /\ pc' = [pc EXCEPT ![p] = "check"]
  /\ UNCHANGED << file, remote, current_state, current_mode, decision, ghosts >>

\* the text read at lines 75-76 yields previous_state['heaters'][0]['mode']
Readable(f) == f.exists /\ Parses(f.data) /\ HasMode(json_load(f.data))

\* lines 75-77
ReadOk(p) ==
  /\ pc[p] = "read"
  /\ Readable(file)
  /\ previous_state' = [previous_state EXCEPT ![p] = Some(json_load(file.data))]
  /\ previous_mode' = [previous_mode EXCEPT ![p] = ModeOf(json_load(file.data))]
  /\ pc' = [pc EXCEPT ![p] = "check"]
  /\ Call(p, "read")
  /\ UNCHANGED << file, remote, current_state, current_mode, decision,
                  emails, startFile, lastRun, lastCompleted, alerts, sendFailed, overlap >>

\* lines 75-77 raise (JSONDecodeError, IndexError): the run aborts
ReadFail(p) ==
  /\ pc[p] = "read"
  /\ ~Readable(file)
  /\ pc' = [pc EXCEPT ![p] = "aborted"]
  /\ Call(p, "read")
  /\ Finish(p, current_state[p], "read_failed")
  /\ UNCHANGED << file, remote, locals, emails, startFile, alerts, sendFailed, overlap >>

\* lines 85-91
Evaluate(p) ==
  /\ pc[p] = "check"
  /\ decision' = [decision EXCEPT ![p] = evaluate_transition(previous_mode[p], current_mode[p])]
  /\ pc' = [pc EXCEPT ![p] =
              IF evaluate_transition(previous_mode[p], current_mode[p]) = "TURNED_ON"
                THEN "send" ELSE "save"]
  /\ UNCHANGED << file, remote, current_state, current_mode, previous_state, previous_mode,
                  ghosts >>

\* line 87, send_email_alert returns: the mail API accepted the message
SendOk(p) ==
  /\ pc[p] = "send"
  /\ emails' = [emails EXCEPT ![p] = @ + 1]
  /\ alerts' = alerts + 1
  /\ pc' = [pc EXCEPT ![p] = "save"]
  /\ Call(p, "send")
  /\ UNCHANGED << file, remote, locals, startFile, lastRun, lastCompleted, sendFailed,
                  overlap >>

\* slip: the state is saved before the send, so a failed send leaves it saved
SendFailAfterSave(p) ==
  /\ pc[p] = "send"
  /\ file' = FileOf(json_dump(current_state[p][1]))
  /\ pc' = [pc EXCEPT ![p] = "aborted"]
  /\ Call(p, "send")
  /\ Finish(p, current_state[p], "send_failed")
  /\ sendFailed' = TRUE
  /\ UNCHANGED << remote, locals, emails, startFile, alerts, overlap >>

\* slip: a failed send is tried again within the run
SendFailRetry(p) ==
  /\ pc[p] = "send"
  /\ Len(calls[p]) < 5
  /\ Call(p, "send")
  /\ sendFailed' = TRUE
  /\ UNCHANGED << file, remote, pc, locals, emails, startFile, lastRun, lastCompleted,
                  alerts, overlap >>

\* line 87, send_email_alert raises at line 62 or 63: the run aborts
SendFail(p) ==
  /\ pc[p] = "send"
  /\ pc' = [pc EXCEPT ![p] = "aborted"]
  /\ Call(p, "send")
  /\ Finish(p, current_state[p], "send_failed")
  /\ sendFailed' = TRUE
  /\ UNCHANGED << file, remote, locals, emails, startFile, alerts, overlap >>

\* line 94: open(STATE_FILE, 'w') creates the file or cuts it to length 0
OpenWrite(p) ==
  /\ pc[p] = "save"
  /\ file' = FileOf(<< >>)
  /\ pc' = [pc EXCEPT ![p] = "dump"]
  /\ Call(p, "write")
  /\ UNCHANGED << remote, locals, emails, startFile, lastRun, lastCompleted,
                  alerts, sendFailed, overlap >>

\* a text written from offset 0 over the present content of the file
WriteAt0(old, text) == text \o SubSeq(old, Len(text) + 1, Len(old))

\* slip: previous_state is dumped where current_state is meant
DumpPrevious(p) ==
  /\ pc[p] = "dump"
  /\ file' = FileOf(WriteAt0(file.data,
               json_dump(IF previous_state[p] = None THEN current_state[p][1]
                                                     ELSE previous_state[p][1])))
  /\ pc' = [pc EXCEPT ![p] = "done"]
  /\ Finish(p, current_state[p], "done")
  /\ UNCHANGED << remote, locals, calls, emails, startFile, alerts, sendFailed, overlap >>

\* slip: the state is saved only when the mode changed
DumpOnlyOnChange(p) ==
  /\ pc[p] = "dump"
  /\ file' = IF decision[p] = "NO_CHANGE" /\ previous_state[p] # None
               THEN FileOf(json_dump(previous_state[p][1]))
               ELSE FileOf(WriteAt0(file.data, json_dump(current_state[p][1])))
  /\ pc' = [pc EXCEPT ![p] = "done"]
  /\ Finish(p, current_state[p], "done")
  /\ UNCHANGED << remote, locals, calls, emails, startFile, alerts, sendFailed, overlap >>

\* line 95 and the close of the with block: the text reaches the file
Dump(p) ==
  /\ pc[p] = "dump"
  /\ file' = FileOf(WriteAt0(file.data, json_dump(current_state[p][1])))
  /\ pc' = [pc EXCEPT ![p] = "done"]
  /\ Finish(p, current_state[p], "done")
  /\ UNCHANGED << remote, locals, calls, emails, startFile, alerts, sendFailed, overlap >>

Step(p) ==
  \/ FetchOk(p) \/ FetchHttpError(p) \/ FetchNoHeaters(p)
  \/ LoadExists(p) \/ LoadNone(p)
  \/ ReadOk(p) \/ ReadFail(p)
  \/ Evaluate(p)
  \/ SendOk(p) \/ SendFail(p)
  \/ OpenWrite(p) \/ Dump(p)

\* the slot that carries the first invocation
Scheduled == CHOOSE p \in Procs : TRUE

\* nothing locks the state file: each slot carries one invocation, and the
\* other invocation is started at any moment after the first, so while the
\* first is alive or when it has exited
ConcurrentStart(p) ==
  /\ pc[p] = "idle"
  /\ p # Scheduled => pc[Scheduled] # "idle"
  /\ Start(p)

Next ==
  \/ RemoteChange
  \/ \E p \in Procs : ConcurrentStart(p)
  \/ \E p \in Procs : Step(p)

Spec == Init /\ [][Next]_vars

\* an external scheduler serializes the invocations: it starts one when the
\* one before has exited, again and again, and one slot carries them all
SerialStart(p) == p = Scheduled /\ Start(p)

SerialNext ==
  \/ RemoteChange
  \/ \E p \in Procs : SerialStart(p)
  \/ \E p \in Procs : Step(p)

SerialSpec == Init /\ [][SerialNext]_vars

TypeOK ==
  /\ file \in [exists : BOOLEAN, data : Seq(STRING)]
  /\ remote \in JsonDocs
  /\ \A p \in Procs : emails[p] \in 0 .. 1

\* the scheduler keeps starting invocations, an invocation runs to its end,
\* and the status API and the mail API answer with success again and again
FairSpec ==
  /\ SerialSpec
  /\ WF_vars(\E p \in Procs : SerialStart(p))
  /\ \A p \in Procs :
       /\ WF_vars(LoadExists(p) \/ LoadNone(p) \/ ReadOk(p) \/ Evaluate(p)
                    \/ OpenWrite(p) \/ Dump(p))
       /\ SF_vars(FetchOk(p))
       /\ SF_vars(SendOk(p))

(***************************************************************************)
(* Properties                                                              *)
(***************************************************************************)
Range(seq) == { seq[i] : i \in 1 .. Len(seq) }
Count(seq, x) == Cardinality({ i \in 1 .. Len(seq) : seq[i] = x })

\* the invocation has called send_email_alert
Attempted(p) == "send" \in Range(calls[p])
\* the invocation has loaded the previous state and taken its decision
Decided(p) == decision[p] # "NONE"
\* the invocation is past line 87: it has gone through or around the send
PastSend(p) == Decided(p) /\ pc[p] # "send"
\* the invocation loaded previous mode 0 and fetched mode 1
Detected(p) == Decided(p) /\ previous_mode[p] = 0 /\ current_mode[p] = 1
\* the mode the state file holds
FileMode == ModeOf(json_load(file.data))

\* C1: an invocation calls send_email_alert only after it loaded previous
\* mode 0 and fetched mode 1, and an invocation that has loaded its previous
\* mode (-1, 0, 1 or other) and is past the decision has called it if it
\* loaded 0 and fetched 1; an invocation that took no decision never calls it.
C1_NotifyIffOffToOn ==
  \A p \in Procs :
    /\ Attempted(p) => Decided(p) /\ previous_mode[p] = 0 /\ current_mode[p] = 1
    /\ pc[p] = "send" => previous_mode[p] = 0 /\ current_mode[p] = 1
    /\ PastSend(p) /\ previous_mode[p] = 0 /\ current_mode[p] = 1 => Attempted(p)

C1_Witness ==
  /\ \E p \in Procs : pc[p] = "done" /\ Attempted(p)
  /\ \E p \in Procs : pc[p] = "done" /\ ~Attempted(p) /\ previous_mode[p] = 1
                        /\ current_mode[p] = 0

\* C2: an invocation that starts with the state file missing or of length 0
\* never reads the file, never reaches the send and never sends, whatever
\* mode it fetches; once loaded, previous_mode is -1 and previous_state None.
C2_FirstRunNeverNotifies ==
  \A p \in Procs :
    pc[p] # "idle" /\ ~(startFile.exists /\ Len(startFile.data) > 0) =>
      /\ pc[p] \notin {"read", "send"}
      /\ ~Attempted(p) /\ emails[p] = 0
      /\ "read" \notin Range(calls[p])
      /\ pc[p] \in {"check", "save", "dump", "done"} =>
           previous_mode[p] = -1 /\ previous_state[p] = None

C2_Witness ==
  \E p \in Procs :
    /\ pc[p] = "done" /\ current_mode[p] = 1
    /\ ~(startFile.exists /\ Len(startFile.data) > 0)

\* C3: when an invocation has completed, the state file is the text of the
\* record it fetched: the file parses to that record and its heaters[0].mode
\* is the fetched current_mode, whatever the decision was.
C3_CompletedRunPersistsFetched ==
  \A p \in Procs :
    pc[p] = "done" =>
      /\ file.exists /\ Parses(file.data)
      /\ json_load(file.data) = current_state[p][1]
      /\ FileMode = current_mode[p]

C3_Witness ==
  \E p \in Procs : pc[p] = "done" /\ decision[p] = "TURNED_ON" /\ emails[p] = 1
                     /\ file.data # startFile.data

\* C4: when an invocation has aborted (fetch failed, state file unreadable,
\* send failed), the state file is what it was when the invocation started.
C4_AbortLeavesFile ==
  \A p \in Procs : pc[p] = "aborted" => file = startFile

C4_Witness ==
  \E p \in Procs : pc[p] = "aborted" /\ Attempted(p) /\ startFile.exists

\* C5 as stated: between serialized runs (the state file was written by one
\* of them), the state file holds the record that the run that finished
\* last observed, never that of an older run.
C5_Original ==
  (/\ \A p \in Procs : ~Active(p)
   /\ lastCompleted # None
   /\ lastRun.observed # None
   /\ Readable(file))
    => json_load(file.data) = lastRun.observed[1]

\* C5: once a serialized run has completed, the state file (outside the
\* rewriting of lines 94-95) holds the record fetched by the run that
\* completed last; an aborted run that came after it has not replaced it.
C5_FileIsLastCompleted ==
  (lastCompleted # None /\ \A p \in Procs : pc[p] # "dump")
    => /\ file.exists /\ Parses(file.data)
       /\ json_load(file.data) = lastCompleted[1]

C5_Witness ==
  /\ \A p \in Procs : ~Active(p)
  /\ lastRun.outcome = "send_failed"
  /\ lastCompleted # None
  /\ lastRun.observed # lastCompleted

\* C6 as stated: a run that fetches the status the run before it fetched
\* sends no notification.
C6_Original ==
  \A p \in Procs :
    Active(p) /\ lastRun.observed = current_state[p] => emails[p] = 0

\* C6: a serialized run that fetches the status the run before it fetched
\* neither reaches the send nor sends, unless the send of the run before
\* failed.
C6_SecondRunSilent ==
  \A p \in Procs :
    (/\ Active(p)
     /\ current_state[p] # None
     /\ lastRun.observed = current_state[p]
     /\ lastRun.outcome # "send_failed")
      => pc[p] # "send" /\ ~Attempted(p) /\ emails[p] = 0

C6_Witness ==
  \E p \in Procs :
    /\ pc[p] = "save" /\ current_mode[p] = 1
    /\ lastRun.outcome = "done" /\ lastRun.observed = current_state[p]
    /\ HasPreviousState(startFile)

\* C7 as stated: a finished run that detected TURNED_ON has produced exactly
\* one e-mail.
C7_Original ==
  \A p \in Procs : pc[p] \in Finished /\ Detected(p) => emails[p] = 1

\* C7: a run that detected TURNED_ON and is past the send has called
\* send_email_alert exactly once; that call produced one e-mail if it
\* returned and none if it failed (the run is then aborted).  No other run
\* calls it or produces an e-mail.
C7_OneSendPerDetection ==
  \A p \in Procs :
    /\ Detected(p) /\ pc[p] # "send" =>
         /\ Count(calls[p], "send") = 1
         /\ emails[p] = (IF pc[p] = "aborted" THEN 0 ELSE 1)
    /\ ~(Detected(p) /\ pc[p] # "send") =>
         Count(calls[p], "send") = 0 /\ emails[p] = 0

C7_Witness ==
  \E p \in Procs : pc[p] = "aborted" /\ Detected(p) /\ Count(calls[p], "send") = 1
                     /\ emails[p] = 0

\* C8: the I/O calls of an invocation, in the order made, are a selection of
\* fetch, read, send, write in that order that starts with the fetch: at
\* most one of each (so at most two network calls), on every path.
Rank(name) ==
  CASE name = "fetch" -> 1 [] name = "read" -> 2 [] name = "send" -> 3
    [] name = "write" -> 4 [] OTHER -> 0
C8_CallOrder ==
  \A p \in Procs :
    /\ calls[p] # << >> => calls[p][1] = "fetch"
    /\ \A i, j \in 1 .. Len(calls[p]) : i < j => Rank(calls[p][i]) < Rank(calls[p][j])
    /\ Count(calls[p], "fetch") + Count(calls[p], "send") <= 2

C8_Witness ==
  \E p \in Procs : pc[p] = "done" /\ calls[p] = << "fetch", "read", "send", "write" >>

\* C9: two e-mails for one change of the remote mode to 1 are sent only when
\* two invocations were alive at once since that change; the witness is the
\* race itself: both invocations read mode 0 before either wrote, both
\* fetched mode 1 and both have sent.
C9_DuplicateOnlyWithOverlap == alerts >= 2 => overlap

C9_Witness ==
  /\ alerts >= 2
  /\ \A p \in Procs : /\ pc[p] = "save" /\ emails[p] = 1
                      /\ previous_mode[p] = 0 /\ current_mode[p] = 1
  /\ Readable(file) /\ FileMode = 0

\* a send failed and no e-mail went out since the remote mode became 1
Owed == sendFailed /\ alerts = 0 /\ RemoteIsOn(remote)

\* a run whose send failed ends with mode 0 persisted
C10_FailedSendKeepsOff ==
  \A p \in Procs :
    pc[p] = "aborted" /\ Attempted(p) => Readable(file) /\ FileMode = 0
\* while the alert is owed, a run that fetched mode 1 does not get past the
\* decision without the send
C10_Retry ==
  \A p \in Procs :
    Owed /\ Active(p) /\ PastSend(p) /\ current_mode[p] = 1 => Attempted(p)
\* after a send succeeded and while the remote mode stays 1: no second
\* e-mail, no run at the send, and the file of a completed run holds mode 1
C10_QuietAfterSuccess ==
  alerts >= 1 /\ RemoteIsOn(remote) =>
    /\ alerts = 1
    /\ \A p \in Procs : pc[p] # "send"
    /\ (\A p \in Procs : pc[p] \notin {"save", "dump"}) => Readable(file) /\ FileMode = 1

====
